---- MODULE Spec2Model ----
(***************************************************************************)
(* Graph construction of resnet_cifar_model.py: the two residual building  *)
(* blocks and resnet56.  A tensor is its static shape, a sequence of       *)
(* dimensions whose first entry is the batch size; a layer is a record of  *)
(* its kind, name, normalization axis, parameter shapes and output shape.  *)
(***************************************************************************)
EXTENDS Integers, Sequences, FiniteSets, TLC

\* ---------------------------------------------------------------- bounds
MaxBatch    == 2    \* batch sizes 1..MaxBatch
MaxClasses  == 2    \* classes argument ranges over -1..MaxClasses
MaxDim      == 3    \* block calls: input height and width 1..MaxDim
MaxStride   == 2    \* block calls: stride 1..MaxStride on each axis
MaxKernel   == 3    \* block calls: kernel_size 1..MaxKernel
MaxFilters  == 3    \* block calls: filters1, filters2 in 1..MaxFilters
MaxChannels == 2    \* block calls: input channels 1..MaxChannels

VARIABLES
    image_data_format,  \* backend.image_data_format(), the ambient layout
    classes,            \* resnet56 argument
    training,           \* resnet56 argument: "True", "False" or "None"
    batch,              \* batch size N of the input the graph is applied to
    pc,                 \* position inside resnet56
    input_shape,        \* resnet56 local
    bn_axis,            \* resnet56 local
    x,                  \* resnet56 local: the current tensor
    nblocks,            \* building-block calls of lines 181-209 already made
    layers,             \* layers created so far by the running call
    uids,               \* the framework's per-prefix counters for unnamed layers
    result,             \* "none", "model" (returned) or "error" (raised)
    call,               \* 1 or 2: which resnet56 call is running
    first,              \* the configuration and outcome of call 1
    blk,                \* arguments of a direct building-block call
    blk_out             \* what that call returned

vars == <<image_data_format, classes, training, batch, pc, input_shape, bn_axis,
          x, nblocks, layers, uids, result, call, first, blk, blk_out>>

\* ------------------------------------------------- framework primitives
\* A call that raises yields no tensor.
ShapeError == <<>>

ValidFormats == {"channels_last", "channels_first"}

\* conv_utils.normalize_data_format, run by every layer built with
\* data_format=None: the ambient value, rejected unless it is one of the two.
normalize_data_format == IF image_data_format \in ValidFormats
                         THEN image_data_format ELSE "invalid"

\* Positions (1-based, the batch at 1) of rows, columns and channels.
RowPos  == IF normalize_data_format = "channels_first" THEN 3 ELSE 2
ColPos  == IF normalize_data_format = "channels_first" THEN 4 ELSE 3
ChanPos == IF normalize_data_format = "channels_first" THEN 2 ELSE 4

MkShape(n, h, w, c) == IF normalize_data_format = "channels_first"
                       THEN <<n, c, h, w>> ELSE <<n, h, w, c>>

\* Mutant: 'valid' padding rounds the strided length down.
conv_output_length_floor(input_length, filter_size, padding, stride) ==
    IF padding = "same" THEN (input_length + stride - 1) \div stride
    ELSE (input_length - filter_size + 1) \div stride

\* conv_utils.conv_output_length for 'same' and 'valid' padding.
conv_output_length(input_length, filter_size, padding, stride) ==
    LET output_length == IF padding = "same" THEN input_length
                         ELSE input_length - filter_size + 1
    IN (output_length + stride - 1) \div stride

Layer(kind, name, axis, train, params, out) ==
    [kind |-> kind, name |-> name, explicit |-> name # "", axis |-> axis,
     training |-> train, params |-> params, out |-> out]

\* layers.Conv2D(filters, kernel_size, strides, padding, name)(inp)
Conv2D(filters, kernel_size, strides, padding, name, inp) ==
    IF inp = ShapeError \/ normalize_data_format = "invalid"
    THEN Layer("Conv2D", name, 0, "n/a", <<>>, ShapeError)
    ELSE LET h == conv_output_length(inp[RowPos], kernel_size[1], padding, strides[1])
             w == conv_output_length(inp[ColPos], kernel_size[2], padding, strides[2])
             kernel == <<kernel_size[1], kernel_size[2], inp[ChanPos], filters>>
             bias   == <<filters>>
         IN Layer("Conv2D", name, 0, "n/a", <<kernel, bias>>,
                  IF h >= 1 /\ w >= 1 /\ filters >= 1
                  THEN MkShape(inp[1], h, w, filters) ELSE ShapeError)

\* layers.BatchNormalization(axis, name)(inp, training): gamma, beta and the
\* two moving statistics have the length of dimension `axis`.
BatchNormalization(axis, name, inp, train) ==
    IF inp = ShapeError
    THEN Layer("BatchNormalization", name, axis, train, <<>>, ShapeError)
    ELSE LET p == <<inp[axis + 1]>>
         IN Layer("BatchNormalization", name, axis, train, <<p, p, p, p>>, inp)

\* layers.Activation('relu')(inp), created without a name.
Activation(inp) == Layer("Activation", "", 0, "n/a", <<>>, inp)

\* layers.add([a, b]): the operands must broadcast, dimension by dimension.
add(a, b) ==
    IF a = ShapeError \/ b = ShapeError \/ Len(a) # Len(b)
    THEN Layer("Add", "", 0, "n/a", <<>>, ShapeError)
    ELSE IF \A i \in 1..Len(a) : a[i] = b[i] \/ a[i] = 1 \/ b[i] = 1
         THEN Layer("Add", "", 0, "n/a", <<>>,
                    [i \in 1..Len(a) |-> IF a[i] = 1 THEN b[i] ELSE a[i]])
         ELSE Layer("Add", "", 0, "n/a", <<>>, ShapeError)

\* The layers a call created before the first one that raised, and the tensor
\* it returned (none when a layer raised).
Built(ls) ==
    LET bad == {i \in 1..Len(ls) : ls[i].out = ShapeError}
        n   == IF bad = {} THEN Len(ls)
               ELSE (CHOOSE i \in bad : \A j \in bad : i <= j) - 1
    IN [out    |-> IF bad = {} THEN ls[Len(ls)].out ELSE ShapeError,
        layers |-> SubSeq(ls, 1, n)]

\* ------------------------------------------------------ building blocks
\* Mutant: the blocks test the layout the other way round.
block_bn_axis_swapped == IF image_data_format = "channels_first" THEN 3 ELSE 1

block_bn_axis == IF image_data_format = "channels_last" THEN 3 ELSE 1

\* Mutant: the convolutions are named from the framework's counter, as a
\* layer built without name= is, instead of from stage and block.
conv_name_base_auto(stage, block) ==
    "conv2d_" \o ToString(uids["Activation"]) \o "_branch"

conv_name_base(stage, block) == "res" \o ToString(stage) \o block \o "_branch"

\* Mutant: the normalization layers take the convolutions' name base.
bn_name_base_res(stage, block) == "res" \o ToString(stage) \o block \o "_branch"

bn_name_base(stage, block) == "bn" \o ToString(stage) \o block \o "_branch"

\* Mutant: the identity block's convolutions use 'valid' padding.
identity_building_block_valid(input_tensor, kernel_size, filters, stage, block, train) ==
    LET ks == <<kernel_size, kernel_size>>
        c1 == Conv2D(filters[1], ks, <<1, 1>>, "valid",
                     "res" \o ToString(stage) \o block \o "_branch2a", input_tensor)
        b1 == BatchNormalization(block_bn_axis,
                                 "bn" \o ToString(stage) \o block \o "_branch2a",
                                 c1.out, train)
        a1 == Activation(b1.out)
        c2 == Conv2D(filters[2], ks, <<1, 1>>, "valid",
                     "res" \o ToString(stage) \o block \o "_branch2b", a1.out)
        b2 == BatchNormalization(block_bn_axis,
                                 "bn" \o ToString(stage) \o block \o "_branch2b",
                                 c2.out, train)
        s  == add(b2.out, input_tensor)
        a2 == Activation(s.out)
    IN Built(<<c1, b1, a1, c2, b2, s, a2>>)

identity_building_block(input_tensor, kernel_size, filters, stage, block, train) ==
    LET filters1 == filters[1]
        filters2 == filters[2]
        ks == <<kernel_size, kernel_size>>
        c1 == Conv2D(filters1, ks, <<1, 1>>, "same",
                     conv_name_base(stage, block) \o "2a", input_tensor)
        b1 == BatchNormalization(block_bn_axis, bn_name_base(stage, block) \o "2a",
                                 c1.out, train)
        a1 == Activation(b1.out)
        c2 == Conv2D(filters2, ks, <<1, 1>>, "same",
                     conv_name_base(stage, block) \o "2b", a1.out)
        b2 == BatchNormalization(block_bn_axis, bn_name_base(stage, block) \o "2b",
                                 c2.out, train)
        s  == add(b2.out, input_tensor)
        a2 == Activation(s.out)
    IN Built(<<c1, b1, a1, c2, b2, s, a2>>)

conv_building_block(input_tensor, kernel_size, filters, stage, block, strides, train) ==
    LET filters1 == filters[1]
        filters2 == filters[2]
        ks == <<kernel_size, kernel_size>>
        c1 == Conv2D(filters1, ks, strides, "same",
                     conv_name_base(stage, block) \o "2a", input_tensor)
        b1 == BatchNormalization(block_bn_axis, bn_name_base(stage, block) \o "2a",
                                 c1.out, train)
        a1 == Activation(b1.out)
        c2 == Conv2D(filters2, ks, <<1, 1>>, "same",
                     conv_name_base(stage, block) \o "2b", a1.out)
        b2 == BatchNormalization(block_bn_axis, bn_name_base(stage, block) \o "2b",
                                 c2.out, train)
        sc == Conv2D(filters2, <<1, 1>>, strides, "valid",
                     conv_name_base(stage, block) \o "1", input_tensor)
        sb == BatchNormalization(block_bn_axis, bn_name_base(stage, block) \o "1",
                                 sc.out, train)
        s  == add(b2.out, sb.out)
        a2 == Activation(s.out)
    IN Built(<<c1, b1, a1, c2, b2, sc, sb, s, a2>>)

\* --------------------------------------------------------------- resnet56
\* Unnamed layers are named by the framework from a counter per layer kind
\* that lives as long as the process does.
AutoKinds == {"Input", "Activation", "Add"}

AutoPrefix(kind) == IF kind = "Input" THEN "input"
                    ELSE IF kind = "Activation" THEN "activation" ELSE "add"

CountKind(ls, n, kind) == Cardinality({j \in 1..n : ls[j].kind = kind})

unique_layer_name(ls) ==
    [i \in 1..Len(ls) |->
        IF ls[i].explicit THEN ls[i]
        ELSE [ls[i] EXCEPT !.name = AutoPrefix(ls[i].kind) \o "_" \o
                  ToString(uids[ls[i].kind] + CountKind(ls, i, ls[i].kind))]]

NextUids(ls) == [k \in AutoKinds |-> uids[k] + CountKind(ls, Len(ls), k)]

\* layers.Input(shape): the batch dimension is put in front.
Input(shape) == Layer("Input", "", 0, "n/a", <<>>, <<batch>> \o shape)

\* layers.ZeroPadding2D(padding, name)(inp)
ZeroPadding2D(padding, name, inp) ==
    IF inp = ShapeError \/ normalize_data_format = "invalid"
    THEN Layer("ZeroPadding2D", name, 0, "n/a", <<>>, ShapeError)
    ELSE Layer("ZeroPadding2D", name, 0, "n/a", <<>>,
               MkShape(inp[1], inp[RowPos] + 2 * padding[1],
                       inp[ColPos] + 2 * padding[2], inp[ChanPos]))

\* layers.GlobalAveragePooling2D(name)(inp)
GlobalAveragePooling2D(name, inp) ==
    IF inp = ShapeError \/ normalize_data_format = "invalid"
    THEN Layer("GlobalAveragePooling2D", name, 0, "n/a", <<>>, ShapeError)
    ELSE Layer("GlobalAveragePooling2D", name, 0, "n/a", <<>>, <<inp[1], inp[ChanPos]>>)

\* Mutant: the classifier always has the 10 units its name suggests.
Dense_ten(units, name, inp) ==
    IF inp = ShapeError \/ units < 0
    THEN Layer("Dense", name, 0, "n/a", <<>>, ShapeError)
    ELSE Layer("Dense", name, 0, "n/a", <<<<inp[Len(inp)], 10>>, <<10>>>>, <<inp[1], 10>>)

\* layers.Dense(units, name)(inp): a negative unit count is no tensor
\* dimension and raises; zero units is a dimension like any other.
Dense(units, name, inp) ==
    IF inp = ShapeError \/ units < 0
    THEN Layer("Dense", name, 0, "n/a", <<>>, ShapeError)
    ELSE Layer("Dense", name, 0, "n/a", <<<<inp[Len(inp)], units>>, <<units>>>>,
               <<inp[1], units>>)

\* Mutant: the default stride of conv_building_block keeps the resolution.
DefaultStrides_one == <<1, 1>>

DefaultStrides == <<2, 2>>

\* Mutant: the first block of a stage does not widen the channels.
ConvCall_narrow(filters, stage, block, strides) ==
    [fn |-> "conv_building_block", kernel_size |-> 3, filters |-> <<filters[1], 16>>,
     stage |-> stage, block |-> block, strides |-> strides]

ConvCall(filters, stage, block, strides) ==
    [fn |-> "conv_building_block", kernel_size |-> 3, filters |-> filters,
     stage |-> stage, block |-> block, strides |-> strides]

IdentityCall(filters, stage, block) ==
    [fn |-> "identity_building_block", kernel_size |-> 3, filters |-> filters,
     stage |-> stage, block |-> block, strides |-> <<1, 1>>]

\* The 27 calls of lines 181-209, in order.
BlockCalls == <<
    ConvCall(<<16, 16>>, 2, "a", <<1, 1>>),
    IdentityCall(<<16, 16>>, 2, "b"),
    IdentityCall(<<16, 16>>, 2, "c"),
    IdentityCall(<<16, 16>>, 2, "d"),
    IdentityCall(<<16, 16>>, 2, "e"),
    IdentityCall(<<16, 16>>, 2, "f"),
    IdentityCall(<<16, 16>>, 2, "g"),
    IdentityCall(<<16, 16>>, 2, "h"),
    IdentityCall(<<16, 16>>, 2, "i"),
    ConvCall(<<32, 32>>, 3, "a", DefaultStrides),
    IdentityCall(<<32, 32>>, 3, "b"),
    IdentityCall(<<32, 32>>, 3, "c"),
    IdentityCall(<<32, 32>>, 3, "d"),
    IdentityCall(<<32, 32>>, 3, "e"),
    IdentityCall(<<32, 32>>, 3, "f"),
    IdentityCall(<<32, 32>>, 3, "g"),
    IdentityCall(<<32, 32>>, 3, "h"),
    IdentityCall(<<32, 32>>, 3, "i"),
    ConvCall(<<64, 64>>, 4, "a", DefaultStrides),
    IdentityCall(<<64, 64>>, 4, "b"),
    IdentityCall(<<64, 64>>, 4, "c"),
    IdentityCall(<<64, 64>>, 4, "d"),
    IdentityCall(<<64, 64>>, 4, "e"),
    IdentityCall(<<64, 64>>, 4, "f"),
    IdentityCall(<<64, 64>>, 4, "g"),
    IdentityCall(<<64, 64>>, 4, "h"),
    IdentityCall(<<64, 64>>, 4, "i")
>>

\* Mutant: every block is built with a shortcut convolution.
ApplyBlock_conv(c, inp, train) ==
    conv_building_block(inp, c.kernel_size, c.filters, c.stage, c.block, c.strides, train)

ApplyBlock(c, inp, train) ==
    IF c.fn = "conv_building_block"
    THEN conv_building_block(inp, c.kernel_size, c.filters, c.stage, c.block,
                             c.strides, train)
    ELSE identity_building_block(inp, c.kernel_size, c.filters, c.stage, c.block, train)

NoCall == [input_tensor |-> ShapeError, kernel_size |-> 0,
           filters |-> <<0, 0>>, strides |-> <<0, 0>>]

NoReturn == [fn |-> "none", out |-> ShapeError, layers |-> <<>>]

NoFirst == [image_data_format |-> "", classes |-> 0, training |-> "",
            layers |-> <<>>, result |-> "none"]

Formats == ValidFormats \cup {"channels_mixed"}

TrainingFlags == {"True", "False", "None"}

Init ==
    /\ image_data_format \in Formats
    /\ classes \in -1..MaxClasses
    /\ training \in TrainingFlags
    /\ batch \in 1..MaxBatch
    /\ pc = "start"
    /\ input_shape = <<>>
    /\ bn_axis = 0
    /\ x = ShapeError
    /\ nblocks = 0
    /\ layers = <<>>
    /\ uids = [k \in AutoKinds |-> 0]
    /\ result = "none"
    /\ call = 1
    /\ first = NoFirst
    /\ blk = NoCall
    /\ blk_out = NoReturn

\* Lines 160-165.
ReadFormat ==
    /\ pc = "start"
    /\ IF image_data_format = "channels_first"
       THEN input_shape' = <<3, 32, 32>> /\ bn_axis' = 1
       ELSE input_shape' = <<32, 32, 3>> /\ bn_axis' = 3
    /\ pc' = "stem"
    /\ UNCHANGED <<image_data_format, classes, training, batch, x, nblocks, layers,
                   uids, result, call, first, blk, blk_out>>

\* What an action does with the layers a step tried to create.
Step(ls, nextpc) ==
    /\ layers' = layers \o unique_layer_name(Built(ls).layers)
    /\ uids' = NextUids(Built(ls).layers)
    /\ x' = Built(ls).out
    /\ IF Built(ls).out = ShapeError
       THEN pc' = "error" /\ result' = "error"
       ELSE pc' = nextpc /\ result' = result

\* Lines 167-179.
Stem ==
    /\ pc = "stem"
    /\ LET img_input == Input(input_shape)
           pad  == ZeroPadding2D(<<1, 1>>, "conv1_pad", img_input.out)
           conv == Conv2D(16, <<3, 3>>, <<1, 1>>, "valid", "conv1", pad.out)
           bn   == BatchNormalization(bn_axis, "bn_conv1", conv.out, training)
           act  == Activation(bn.out)
       IN Step(<<img_input, pad, conv, bn, act>>, "blocks")
    /\ UNCHANGED <<image_data_format, classes, training, batch, input_shape, bn_axis,
                   nblocks, call, first, blk, blk_out>>

\* One of lines 181-209.
Block ==
    /\ pc = "blocks"
    /\ nblocks < Len(BlockCalls)
    /\ LET r == ApplyBlock(BlockCalls[nblocks + 1], x, training)
       IN /\ layers' = layers \o unique_layer_name(r.layers)
          /\ uids' = NextUids(r.layers)
          /\ x' = r.out
          /\ IF r.out = ShapeError
             THEN pc' = "error" /\ result' = "error" /\ nblocks' = nblocks
             ELSE /\ nblocks' = nblocks + 1
                  /\ pc' = IF nblocks + 1 = Len(BlockCalls) THEN "pool" ELSE "blocks"
                  /\ result' = result
    /\ UNCHANGED <<image_data_format, classes, training, batch, input_shape, bn_axis,
                   call, first, blk, blk_out>>

\* Line 211.
Pool ==
    /\ pc = "pool"
    /\ Step(<<GlobalAveragePooling2D("avg_pool", x)>>, "fc")
    /\ UNCHANGED <<image_data_format, classes, training, batch, input_shape, bn_axis,
                   nblocks, call, first, blk, blk_out>>

\* Lines 212-216.
Fc ==
    /\ pc = "fc"
    /\ Step(<<Dense(classes, "fc10", x)>>, "return")
    /\ UNCHANGED <<image_data_format, classes, training, batch, input_shape, bn_axis,
                   nblocks, call, first, blk, blk_out>>

\* Line 219.
Return ==
    /\ pc = "return"
    /\ pc' = "done"
    /\ result' = "model"
    /\ UNCHANGED <<image_data_format, classes, training, batch, input_shape, bn_axis,
                   x, nblocks, layers, uids, call, first, blk, blk_out>>

resnet56 == ReadFormat \/ Stem \/ Block \/ Pool \/ Fc \/ Return

Next == resnet56

Spec == Init /\ [][Next]_vars

\* ------------------------------------------ a second call of resnet56
\* The caller calls resnet56 again in the same process, with arguments and an
\* ambient layout of its choice; the framework's counters live on.
SecondCall ==
    /\ call = 1
    /\ pc \in {"done", "error"}
    /\ first' = [image_data_format |-> image_data_format, classes |-> classes,
                 training |-> training, layers |-> layers, result |-> result]
    /\ call' = 2
    /\ image_data_format' \in Formats
    /\ classes' \in -1..MaxClasses
    /\ training' \in TrainingFlags
    /\ pc' = "start"
    /\ input_shape' = <<>>
    /\ bn_axis' = 0
    /\ x' = ShapeError
    /\ nblocks' = 0
    /\ layers' = <<>>
    /\ result' = "none"
    /\ UNCHANGED <<batch, uids, blk, blk_out>>

NextTwice == resnet56 \/ SecondCall

SpecTwice == Init /\ [][NextTwice]_vars

\* ------------------------------- direct calls of the building blocks
InitBlocks ==
    /\ image_data_format \in ValidFormats
    /\ classes = 0
    /\ training = "None"
    /\ batch \in 1..MaxBatch
    /\ pc = "start"
    /\ input_shape = <<>>
    /\ bn_axis = 0
    /\ x = ShapeError
    /\ nblocks = 0
    /\ layers = <<>>
    /\ uids = [k \in AutoKinds |-> 0]
    /\ result = "none"
    /\ call = 1
    /\ first = NoFirst
    /\ \E h \in 1..MaxDim, w \in 1..MaxDim, c \in 1..MaxChannels,
          k \in 1..MaxKernel, f1 \in 1..MaxFilters, f2 \in 1..MaxFilters,
          sh \in 1..MaxStride, sw \in 1..MaxStride :
          blk = [input_tensor |-> MkShape(batch, h, w, c), kernel_size |-> k,
                 filters |-> <<f1, f2>>, strides |-> <<sh, sw>>]
    /\ blk_out = NoReturn

CallConvBlock ==
    /\ blk_out.fn = "none"
    /\ LET r == conv_building_block(blk.input_tensor, blk.kernel_size, blk.filters,
                                    2, "a", blk.strides, training)
       IN blk_out' = [fn |-> "conv_building_block", out |-> r.out, layers |-> r.layers]
    /\ UNCHANGED <<image_data_format, classes, training, batch, pc, input_shape,
                   bn_axis, x, nblocks, layers, uids, result, call, first, blk>>

CallIdentityBlock ==
    /\ blk_out.fn = "none"
    /\ LET r == identity_building_block(blk.input_tensor, blk.kernel_size, blk.filters,
                                        2, "b", training)
       IN blk_out' = [fn |-> "identity_building_block", out |-> r.out,
                      layers |-> r.layers]
    /\ UNCHANGED <<image_data_format, classes, training, batch, pc, input_shape,
                   bn_axis, x, nblocks, layers, uids, result, call, first, blk>>

NextBlocks == CallConvBlock \/ CallIdentityBlock

SpecBlocks == InitBlocks /\ [][NextBlocks]_vars

\* ================================================================ claims
Learnable == {"Conv2D", "BatchNormalization", "Dense"}

OfKind(ls, kind) == {i \in 1..Len(ls) : ls[i].kind = kind}

\* Every building block ends in its one Add followed by an Activation, so the
\* Add layers delimit the blocks of the graph built so far.
NthAdd(j) == CHOOSE i \in OfKind(layers, "Add") :
                 Cardinality({k \in OfKind(layers, "Add") : k <= i}) = j

BlockFirst(j) == IF j = 1 THEN 6 ELSE NthAdd(j - 1) + 2

BlockLast(j) == NthAdd(j) + 1

BlocksBuilt == Cardinality(OfKind(layers, "Add"))

Labels == <<"a", "b", "c", "d", "e", "f", "g", "h", "i">>

StageOf(j) == 2 + ((j - 1) \div 9)

LabelOf(j) == Labels[((j - 1) % 9) + 1]

WidthOf(j) == IF StageOf(j) = 2 THEN 16 ELSE IF StageOf(j) = 3 THEN 32 ELSE 64

SideOf(j) == IF StageOf(j) = 2 THEN 32 ELSE IF StageOf(j) = 3 THEN 16 ELSE 8

Res(stage, block, suffix) == "res" \o ToString(stage) \o block \o "_branch" \o suffix

CeilDiv(a, b) == CHOOSE q \in 0..a : q * b >= a /\ (q - 1) * b < a

\* C1: for classes > 0 and batch size N >= 1, under channels_last, resnet56
\* returns a graph whose input is (N, 32, 32, 3) and whose output is
\* (N, classes): the 27 blocks end in a tensor that 'avg_pool' collapses to
\* (N, 64), and 'fc10' projects it to `classes` units; no such call raises.
C1_OutputShape ==
    (image_data_format = "channels_last" /\ classes > 0) =>
        /\ pc # "error"
        /\ pc = "done" =>
            /\ result = "model"
            /\ layers[1].kind = "Input" /\ layers[1].out = <<batch, 32, 32, 3>>
            /\ BlocksBuilt = 27
            /\ layers[Len(layers) - 1].name = "avg_pool"
            /\ layers[Len(layers) - 1].out = <<batch, 64>>
            /\ layers[Len(layers)].name = "fc10"
            /\ layers[Len(layers)].params = <<<<64, classes>>, <<classes>>>>
            /\ x = <<batch, classes>>

C1_Witness ==
    /\ pc = "done" /\ image_data_format = "channels_last"
    /\ classes = 2 /\ batch = 2 /\ x = <<2, 2>>

\* C2: the blocks are built in stages 2, 3, 4 of exactly 9 blocks labelled
\* 'a'..'i' in order; block 'a' has a shortcut convolution (a
\* conv_building_block) and 'b'..'i' have none (identity_building_blocks);
\* every block of stage 2 outputs 16 channels, of stage 3 32, of stage 4 64,
\* and under a valid layout all 27 blocks are built.
C2_Stages ==
    /\ BlocksBuilt = nblocks
    /\ \A j \in 1..BlocksBuilt :
        LET convs == {layers[i].name : i \in {k \in BlockFirst(j)..BlockLast(j) :
                                              layers[k].kind = "Conv2D"}}
            s == StageOf(j)
            b == LabelOf(j)
        IN /\ convs = IF b = "a"
                      THEN {Res(s, b, "2a"), Res(s, b, "2b"), Res(s, b, "1")}
                      ELSE {Res(s, b, "2a"), Res(s, b, "2b")}
           /\ (BlockLast(j) - BlockFirst(j) + 1) = IF b = "a" THEN 9 ELSE 7
           /\ layers[BlockLast(j)].kind = "Activation"
           /\ layers[BlockLast(j)].out[ChanPos] = WidthOf(j)
    /\ (image_data_format \in ValidFormats /\ pc \in {"pool", "fc", "return", "done", "error"})
           => BlocksBuilt = 27

C2_Witness ==
    /\ pc = "done" /\ BlocksBuilt = 27
    /\ layers[BlockLast(9)].out[ChanPos] = 16
    /\ layers[BlockLast(18)].out[ChanPos] = 32
    /\ layers[BlockLast(27)].out[ChanPos] = 64

\* C3: one completed resnet56 call has created exactly 58 convolutions: the
\* stem 'conv1', the '2a' and '2b' convolutions of each of the 27 blocks, and
\* the shortcut convolution '1' of block 'a' of stages 2, 3 and 4 only.
C3_ConvCount ==
    pc = "done" =>
        LET convs == OfKind(layers, "Conv2D")
            main  == {i \in convs : \E j \in 1..27, sfx \in {"2a", "2b"} :
                          layers[i].name = Res(StageOf(j), LabelOf(j), sfx)}
            short == {i \in convs : \E j \in 1..27 :
                          layers[i].name = Res(StageOf(j), LabelOf(j), "1")}
        IN /\ Cardinality(convs) = 58
           /\ Cardinality({i \in convs : layers[i].name = "conv1"}) = 1
           /\ Cardinality(main) = 54
           /\ Cardinality(short) = 3
           /\ {layers[i].name : i \in short} =
                  {Res(2, "a", "1"), Res(3, "a", "1"), Res(4, "a", "1")}

C3_Witness == pc = "done" /\ Cardinality(OfKind(layers, "Conv2D")) = 58

\* C4: at every point of the construction no two learnable layers
\* (convolutions, batch normalizations, the dense layer) of the call bear
\* the same name; a completed call has 58 + 58 + 1 of them.
C4_UniqueNames ==
    LET learn == {i \in 1..Len(layers) : layers[i].kind \in Learnable}
    IN /\ \A i \in learn : layers[i].explicit
       /\ \A i, j \in learn : i # j => layers[i].name # layers[j].name
       /\ pc = "done" =>
            /\ Cardinality(OfKind(layers, "Conv2D")) = 58
            /\ Cardinality(OfKind(layers, "BatchNormalization")) = 58
            /\ Cardinality(OfKind(layers, "Dense")) = 1

C4_Witness ==
    /\ pc = "done"
    /\ Cardinality({layers[i].name : i \in {k \in 1..Len(layers) :
                        layers[k].kind \in Learnable}}) = 117

\* C5: conv_building_block returns spatial dimensions ceil(input / stride)
\* on each axis and filters2 channels; the main path and the shortcut path
\* hand the add identical shapes, so the block never raises.
C5_ConvBlockShape ==
    blk_out.fn = "conv_building_block" =>
        /\ Len(blk_out.layers) = 9
        /\ blk_out.layers[5].out = blk_out.layers[7].out
        /\ blk_out.out = MkShape(batch,
                                 CeilDiv(blk.input_tensor[RowPos], blk.strides[1]),
                                 CeilDiv(blk.input_tensor[ColPos], blk.strides[2]),
                                 blk.filters[2])

C5_Witness ==
    /\ blk_out.fn = "conv_building_block"
    /\ blk.input_tensor[RowPos] = 3 /\ blk.input_tensor[ColPos] = 1
    /\ blk.strides = <<2, 2>> /\ blk.kernel_size = 3
    /\ blk.filters[2] # blk.input_tensor[ChanPos]
    /\ blk_out.out[RowPos] = 2 /\ blk_out.out[ColPos] = 1

\* C6: identity_building_block returns a tensor of exactly the input's shape
\* when filters2 equals the input channel count; when it differs the two
\* operands of the add have different shapes, the block has built its whole
\* main path without objecting, and its outcome is whatever the add makes of
\* the operands.
C6_IdentityBlockShape ==
    blk_out.fn = "identity_building_block" =>
        IF blk.filters[2] = blk.input_tensor[ChanPos]
        THEN blk_out.out = blk.input_tensor /\ Len(blk_out.layers) = 7
        ELSE /\ Len(blk_out.layers) >= 5
             /\ blk_out.layers[5].kind = "BatchNormalization"
             /\ blk_out.layers[5].out # blk.input_tensor
             /\ blk_out.layers[5].out[ChanPos] = blk.filters[2]
             /\ blk_out.out = add(blk_out.layers[5].out, blk.input_tensor).out

C6_Witness ==
    /\ blk_out.fn = "identity_building_block"
    /\ blk.filters[2] = blk.input_tensor[ChanPos]
    /\ blk.filters[1] # blk.filters[2]
    /\ blk.kernel_size = 3
    /\ blk_out.out = blk.input_tensor

\* C7: a resnet56 call under an invalid configuration (a layout that is
\* neither 'channels_last' nor 'channels_first', or classes <= 0) raises and
\* returns no graph.
C7_FailFast ==
    (image_data_format \notin ValidFormats \/ classes <= 0) =>
        /\ result # "model"
        /\ pc # "done"

\* C9: within one call the layout is applied consistently: 'bn_conv1' and
\* every normalization layer of the blocks use the same axis, that axis of
\* the input shape tuple holds the 3 image channels, and it is the axis on
\* which the preceding convolution put its filters.
C9_ConsistentLayout ==
    /\ pc # "start" => input_shape[bn_axis] = 3
    /\ \A i \in OfKind(layers, "BatchNormalization") :
        /\ layers[i].axis = bn_axis
        /\ layers[i - 1].kind = "Conv2D"
        /\ layers[i].params[1] = layers[i - 1].params[2]
    /\ result = "model" => Cardinality(OfKind(layers, "BatchNormalization")) = 58

C9_Witness ==
    /\ result = "model" /\ image_data_format = "channels_first"
    /\ \A i \in OfKind(layers, "BatchNormalization") : layers[i].axis = 1
    /\ layers[1].out = <<batch, 3, 32, 32>>

\* C10: the stem pads 32x32 to 34x34 and its 'valid' convolution returns to
\* 32x32; every layer of blocks 1..9 is 32x32, of blocks 10..18 16x16 and of
\* blocks 19..27 8x8; from 'conv1' on the resolution never increases and
\* changes only on entering the first block of stages 3 and 4.
C10_Resolution ==
    LET side(i) == <<layers[i].out[RowPos], layers[i].out[ColPos]>>
    IN (image_data_format \in ValidFormats /\ Len(layers) >= 5) =>
        /\ side(1) = <<32, 32>> /\ layers[2].name = "conv1_pad" /\ side(2) = <<34, 34>>
        /\ \A i \in 3..5 : side(i) = <<32, 32>>
        /\ \A j \in 1..BlocksBuilt : \A i \in BlockFirst(j)..BlockLast(j) :
               side(i) = <<SideOf(j), SideOf(j)>>
        /\ \A i \in 3..(Len(layers) - 1) :
               (Len(layers[i].out) = 4 /\ Len(layers[i + 1].out) = 4) =>
                   /\ side(i + 1)[1] <= side(i)[1]
                   /\ side(i + 1)[2] <= side(i)[2]
                   /\ side(i + 1) # side(i) =>
                          \E j \in {10, 19} : j <= BlocksBuilt /\ i + 1 = BlockFirst(j)

C10_Witness ==
    /\ pc = "done" /\ BlocksBuilt = 27
    /\ layers[BlockLast(9)].out[RowPos] = 32
    /\ layers[BlockFirst(10)].out[RowPos] = 16
    /\ layers[BlockFirst(19)].out[ColPos] = 8
    /\ layers[BlockLast(27)].out[RowPos] = 8


\* C8: two calls of resnet56 with the same classes, training flag and layout
\* create the same sequence of layers with the same names on every
\* learnable layer and the same parameter shapes, and end the same way,
\* whatever the first call left behind.
C8_Deterministic ==
    (/\ call = 2 /\ pc \in {"done", "error"}
     /\ first.image_data_format = image_data_format
     /\ first.classes = classes
     /\ first.training = training) =>
        /\ result = first.result
        /\ Len(layers) = Len(first.layers)
        /\ \A i \in 1..Len(layers) :
            /\ layers[i].kind = first.layers[i].kind
            /\ layers[i].explicit = first.layers[i].explicit
            /\ layers[i].explicit => layers[i].name = first.layers[i].name
            /\ layers[i].params = first.layers[i].params
            /\ layers[i].axis = first.layers[i].axis
            /\ layers[i].training = first.layers[i].training
            /\ layers[i].out = first.layers[i].out

C8_Witness ==
    /\ call = 2 /\ pc = "done" /\ first.result = "model"
    /\ first.image_data_format = image_data_format
    /\ first.classes = classes /\ first.training = training
    /\ layers[Len(layers)].name = "fc10"
    /\ layers[1].name # first.layers[1].name

====
